---- MODULE Spec2Model ----
(***************************************************************************)
(* Podcast catalog browser: the PodcastProvider context (dataset, query    *)
(* parameters, responsive page size, derived page) and the show detail     *)
(* view (ShowDetail / PodcastDetail with its selected season).             *)
(*                                                                         *)
(* Text is modelled as a sequence of one-character strings, so that        *)
(* trim, toLowerCase, includes, localeCompare and Number are computed.     *)
(***************************************************************************)
EXTENDS Integers, Sequences, FiniteSets

VARIABLES
  mounted,              \* PodcastProvider is mounted
  allPodcasts,          \* useState([])            PodcastContext:46
  loading,              \* useState(true)          PodcastContext:47
  error,                \* useState(null)          PodcastContext:48
  search,               \* useState("")            PodcastContext:50
  sortKey,              \* useState("date-desc")   PodcastContext:51
  genre,                \* useState("all")         PodcastContext:52
  page,                 \* useState(1)             PodcastContext:53
  pageSize,             \* useState(10)            PodcastContext:54
  innerWidth,           \* window.innerWidth
  listeners,            \* number of "resize" listeners registered on window
  fetchPending,         \* the catalog request of this mount is in flight
  lastEvent,            \* history: the kind of the last provider event
  prevPage,             \* history: the requested page before that event
  route,                \* "home" | "show" : which <Route> is rendered
  podcast,              \* ShowDetail useState([])
  detailLoading,        \* ShowDetail useState(true)
  detailError,          \* ShowDetail useState(null)
  selectedSeasonIndex,  \* PodcastDetail useState(0)
  detailFetchPending,   \* the show request of this ShowDetail is in flight
  navGenres,            \* location.state.genres handed over by navigate
  crashed               \* a render threw: React has unmounted the tree

catalogVars == <<mounted, allPodcasts, loading, error, search, sortKey, genre,
                 page, pageSize, innerWidth, listeners, fetchPending,
                 lastEvent, prevPage>>
detailVars == <<route, podcast, detailLoading, detailError,
                selectedSeasonIndex, detailFetchPending, navGenres, crashed>>
vars == <<catalogVars, detailVars>>

null == "null"
\* A value that may be undefined: <<>> is undefined, <<v>> is the value v.
undefined == <<>>
Defined(v) == <<v>>

(***************************************************************************)
(* Bounds of the model.                                                    *)
(***************************************************************************)
MaxShows == 13
MaxPage == 4
MaxSeasons == 3
MaxEpisodes == 2

(***************************************************************************)
(* Text primitives.                                                        *)
(***************************************************************************)
Min(a, b) == IF a < b THEN a ELSE b
Max(a, b) == IF a > b THEN a ELSE b

\* String.prototype.toLowerCase on one character.
LowerChar(c) ==
  CASE c = "A" -> "a"
    [] c = "B" -> "b"
    [] OTHER -> c

toLowerCase(s) == [i \in 1..Len(s) |-> LowerChar(s[i])]

IsSpace(c) == c = " "

\* String.prototype.trim
RECURSIVE trimStart(_)
trimStart(s) ==
  IF s # <<>> /\ IsSpace(Head(s)) THEN trimStart(Tail(s)) ELSE s

RECURSIVE trimEnd(_)
trimEnd(s) ==
  IF s # <<>> /\ IsSpace(s[Len(s)]) THEN trimEnd(SubSeq(s, 1, Len(s) - 1)) ELSE s

trim(s) == trimEnd(trimStart(s))

\* String.prototype.includes
includes(hay, needle) ==
  \E i \in 0..(Len(hay) - Len(needle)) :
    SubSeq(hay, i + 1, i + Len(needle)) = needle

\* Number(string): whitespace is trimmed, "" is 0, decimal digits are read,
\* anything else is NaN.
IsDigit(c) == c \in {"0", "1", "2", "3", "4", "5", "6", "7", "8", "9"}

DigitValue(c) ==
  CASE c = "0" -> 0 [] c = "1" -> 1 [] c = "2" -> 2 [] c = "3" -> 3
    [] c = "4" -> 4 [] c = "5" -> 5 [] c = "6" -> 6 [] c = "7" -> 7
    [] c = "8" -> 8 [] c = "9" -> 9

RECURSIVE DecimalValue(_)
DecimalValue(s) ==
  IF s = <<>> THEN 0
  ELSE 10 * DecimalValue(SubSeq(s, 1, Len(s) - 1)) + DigitValue(s[Len(s)])

Number(s) ==
  LET t == trim(s) IN
    IF \A i \in 1..Len(t) : IsDigit(t[i])
      THEN [nan |-> FALSE, val |-> DecimalValue(t)]
      ELSE [nan |-> TRUE, val |-> 0]

\* Array.prototype.includes on an array of numbers (SameValueZero; the
\* arrays hold no NaN).
arrayIncludes(arr, n) == ~n.nan /\ \E i \in 1..Len(arr) : arr[i] = n.val

(***************************************************************************)
(* String.prototype.localeCompare under the root collation: strings are    *)
(* compared by primary weights (space before letters, case ignored), and   *)
(* only when all primary weights agree by case, lower before upper.        *)
(***************************************************************************)
PrimaryWeight(c) ==
  CASE c = " " -> 1
    [] LowerChar(c) = "a" -> 2
    [] LowerChar(c) = "b" -> 3
    [] OTHER -> 4

TertiaryWeight(c) == IF LowerChar(c) = c THEN 0 ELSE 1

RECURSIVE LexCompare(_, _)
LexCompare(x, y) ==
  IF x = <<>> /\ y = <<>> THEN 0
  ELSE IF x = <<>> THEN -1
  ELSE IF y = <<>> THEN 1
  ELSE IF Head(x) < Head(y) THEN -1
  ELSE IF Head(x) > Head(y) THEN 1
  ELSE LexCompare(Tail(x), Tail(y))

localeCompare(a, b) ==
  LET p == LexCompare([i \in 1..Len(a) |-> PrimaryWeight(a[i])],
                      [i \in 1..Len(b) |-> PrimaryWeight(b[i])])
  IN IF p # 0 THEN p
     ELSE LexCompare([i \in 1..Len(a) |-> TertiaryWeight(a[i])],
                     [i \in 1..Len(b) |-> TertiaryWeight(b[i])])

(***************************************************************************)
(* new Date(iso): the value of a calendar date, in whole days since        *)
(* 1970-01-01 (the catalog's timestamps are kept at day granularity).      *)
(***************************************************************************)
DateValue(u) ==
  LET y == IF u.month <= 2 THEN u.year - 1 ELSE u.year
      era == y \div 400
      yoe == y - era * 400
      mp == IF u.month > 2 THEN u.month - 3 ELSE u.month + 9
      doy == (153 * mp + 2) \div 5 + u.day - 1
      doe == yoe * 365 + yoe \div 4 - yoe \div 100 + doy
  IN era * 146097 + doe - 719468

(***************************************************************************)
(* Array helpers.                                                          *)
(***************************************************************************)
\* Array.prototype.slice(start, end), negative indices counting from the end.
slice(arr, start, end) ==
  LET len == Len(arr)
      from == IF start < 0 THEN Max(len + start, 0) ELSE Min(start, len)
      to == IF end < 0 THEN Max(len + end, 0) ELSE Min(end, len)
  IN SubSeq(arr, from + 1, to)

\* The comparators handed to Array.prototype.sort by applyFilters.
CompareDateAscForDesc(key, a, b) ==
  CASE key = "title-asc" -> localeCompare(a.title, b.title)
    [] key = "title-desc" -> localeCompare(b.title, a.title)
    [] key = "date-asc" -> DateValue(a.updated) - DateValue(b.updated)
    [] key = "date-desc" -> DateValue(a.updated) - DateValue(b.updated)

Compare(key, a, b) ==
  CASE key = "title-asc" -> localeCompare(a.title, b.title)
    [] key = "title-desc" -> localeCompare(b.title, a.title)
    [] key = "date-asc" -> DateValue(a.updated) - DateValue(b.updated)
    [] key = "date-desc" -> DateValue(b.updated) - DateValue(a.updated)

\* Array.prototype.sort(compareFn): a stable sort.  x is placed behind every
\* element already placed that does not compare greater than it.
RECURSIVE InsertSorted(_, _, _)
InsertSorted(acc, x, key) ==
  IF acc = <<>> THEN <<x>>
  ELSE IF Compare(key, acc[Len(acc)], x) > 0
    THEN Append(InsertSorted(SubSeq(acc, 1, Len(acc) - 1), x, key), acc[Len(acc)])
    ELSE Append(acc, x)

RECURSIVE SortInto(_, _, _)
SortInto(acc, rest, key) ==
  IF rest = <<>> THEN acc
  ELSE SortInto(InsertSorted(acc, Head(rest), key), Tail(rest), key)

arraySort(arr, key) == SortInto(<<>>, arr, key)

(***************************************************************************)
(* applyFilters (PodcastContext:98-129).  An array value carries whether   *)
(* it is the very array held in the allPodcasts state, because sort works  *)
(* in place.                                                               *)
(***************************************************************************)
SORT_OPTIONS == <<"default", "date-desc", "date-asc", "title-asc", "title-desc">>

\* let data = [...allPodcasts]
SpreadCopy(arr) == [items |-> arr, shared |-> FALSE]

\* if (search.trim()) filtering by the trimmed query
searchStepTrimmed(data, s) ==
  IF trim(s) # <<>>
    THEN LET q == toLowerCase(trim(s))
             keep(p) == includes(toLowerCase(p.title), q)
         IN [items |-> SelectSeq(data.items, keep), shared |-> FALSE]
    ELSE data

\* if (search.trim()) { q = search.toLowerCase(); data = data.filter(...) }
searchStep(data, s) ==
  IF trim(s) # <<>>
    THEN LET q == toLowerCase(s)
             keep(p) == includes(toLowerCase(p.title), q)
         IN [items |-> SelectSeq(data.items, keep), shared |-> FALSE]
    ELSE data

\* the genre filter applied whatever the value of genre
genreStepNoAll(data, g) ==
  LET keep(p) == arrayIncludes(p.genres, Number(g))
  IN [items |-> SelectSeq(data.items, keep), shared |-> FALSE]

\* if (genre !== "all") data = data.filter(p => p.genres.includes(Number(genre)))
genreStep(data, g) ==
  IF g # <<"a", "l", "l">>
    THEN LET keep(p) == arrayIncludes(p.genres, Number(g))
         IN [items |-> SelectSeq(data.items, keep), shared |-> FALSE]
    ELSE data

\* switch (sortKey) { ... data.sort(...) ... default: break }
sortStep(data, key) ==
  IF key \in {"title-asc", "title-desc", "date-asc", "date-desc"}
    THEN [items |-> arraySort(data.items, key), shared |-> data.shared]
    ELSE data

\* data: the returned array; source: the allPodcasts array after the call.
applyFilters(ap, s, g, key) ==
  LET d == sortStep(genreStep(searchStep(SpreadCopy(ap), s), g), key)
  IN [data |-> d.items, source |-> IF d.shared THEN d.items ELSE ap]

(***************************************************************************)
(* The derived view (PodcastContext:131-137).                              *)
(***************************************************************************)
filtered == applyFilters(allPodcasts, search, genre, sortKey).data

\* Math.ceil(n / d) for d > 0
ceilDiv(n, d) == -((-n) \div d)

totalPagesNoMax == ceilDiv(Len(filtered), pageSize)

totalPages == Max(1, ceilDiv(Len(filtered), pageSize))

currentPage == Min(page, totalPages)

paged == slice(filtered, (currentPage - 1) * pageSize, currentPage * pageSize)

(***************************************************************************)
(* Responsive page size (PodcastContext:73-90).                            *)
(***************************************************************************)
mobileBreakpoint == 1024
defaultPageSize == 10
cardWidth == 260
maxRows == 2

calculatePageSizeOneRow(screenW) ==
  IF screenW <= mobileBreakpoint THEN defaultPageSize
  ELSE screenW \div cardWidth

calculatePageSize(screenW) ==
  IF screenW <= mobileBreakpoint THEN defaultPageSize
  ELSE (screenW \div cardWidth) * maxRows

\* window.addEventListener("resize", calculatePageSize)
addResizeListener(n) == n + 1

\* a cleanup that removes nothing
keepResizeListener(n) == n

\* return () => window.removeEventListener("resize", calculatePageSize)
removeResizeListener(n) == IF n > 0 THEN n - 1 ELSE 0

(***************************************************************************)
(* The page-reset effect (PodcastContext:66-68).                           *)
(***************************************************************************)
resetDepsNoSort(s, key, g) == <<s, g>>

\* the dependency list [search, sortKey, genre]
resetDeps(s, key, g) == <<s, key, g>>

\* useEffect(() => setPage(1), deps): runs after a render whose deps differ
pageResetEffect(oldDeps, newDeps, p) == IF oldDeps # newDeps THEN 1 ELSE p

(***************************************************************************)
(* Inputs: catalogs the data source can deliver, and what the controls of  *)
(* the home page and the window can send.                                  *)
(***************************************************************************)
Titles == << <<"A", "b">>, <<"a", "b">>, <<"b", " ", "a">>, <<"B", "a">>, <<"B">> >>

Dates == << [year |-> 2024, month |-> 3, day |-> 1],
            [year |-> 2023, month |-> 12, day |-> 31],
            [year |-> 2024, month |-> 2, day |-> 29] >>

GenreLists == << <<1>>, <<1, 2>>, <<>>, <<2, 9>> >>

\* The i-th show of the remote catalog.
ShowAt(i) ==
  [id |-> i,
   title |-> Titles[((i - 1) % Len(Titles)) + 1],
   updated |-> Dates[((i - 1) % Len(Dates)) + 1],
   genres |-> GenreLists[((i - 1) % Len(GenreLists)) + 1]]

Catalog(n) == [i \in 1..n |-> ShowAt(i)]

Reversed(arr) == [i \in 1..Len(arr) |-> arr[Len(arr) + 1 - i]]

Datasets ==
  {Catalog(n) : n \in {0, 5, MaxShows}} \cup {Reversed(Catalog(MaxShows - 6))}

SearchInputs == { <<>>, <<" ">>, <<"a">>, <<"A", "B">>, <<" ", "a">> }

GenreInputs == { <<"a", "l", "l">>, <<"1">>, <<"2">>, <<"1", "0">> }

SortInputs == {SORT_OPTIONS[i] : i \in 1..Len(SORT_OPTIONS)}

PageInputs == (-1)..MaxPage

Widths == {1024, 1025, 1560}

(***************************************************************************)
(* PodcastProvider.                                                        *)
(***************************************************************************)
\* The hook state of a provider instance that has not run an effect
\* (PodcastContext:46-54); also stands for the state of no instance.
HookDefaults ==
  /\ allPodcasts' = <<>>
  /\ loading' = TRUE
  /\ error' = null
  /\ search' = <<>>
  /\ sortKey' = "date-desc"
  /\ genre' = <<"a", "l", "l">>

\* The render that ends every update: applyFilters runs on the new state.
Rendered(ap, s, g, key) == applyFilters(ap, s, g, key).source

\* The app loaded at "/": the provider has mounted and run its effects.
Init ==
  /\ mounted = TRUE
  /\ allPodcasts = <<>>
  /\ loading = TRUE
  /\ error = null
  /\ search = <<>>
  /\ sortKey = "date-desc"
  /\ genre = <<"a", "l", "l">>
  /\ page = 1
  /\ innerWidth \in Widths
  /\ pageSize = calculatePageSize(innerWidth)
  /\ listeners = addResizeListener(0)
  /\ fetchPending = TRUE
  /\ lastEvent = "mount"
  /\ prevPage = 1
  /\ route = "home"
  /\ podcast = <<>>
  /\ detailLoading = TRUE
  /\ detailError = null
  /\ selectedSeasonIndex = 0
  /\ detailFetchPending = FALSE
  /\ navGenres = undefined
  /\ crashed = FALSE

\* First render and the three mount effects: the catalog request starts,
\* setPage(1), calculatePageSize() and addEventListener.
MountProvider ==
  /\ mounted' = TRUE
  /\ HookDefaults
  /\ fetchPending' = TRUE
  /\ page' = 1
  /\ pageSize' = calculatePageSize(innerWidth)
  /\ listeners' = addResizeListener(listeners)
  /\ lastEvent' = "mount" /\ prevPage' = 1
  /\ UNCHANGED innerWidth

\* The cleanup of the resize effect; the instance's state is gone.
UnmountProvider ==
  /\ mounted' = FALSE
  /\ HookDefaults
  /\ fetchPending' = FALSE
  /\ page' = 1
  /\ pageSize' = defaultPageSize
  /\ listeners' = removeResizeListener(listeners)
  /\ lastEvent' = "unmount" /\ prevPage' = 1
  /\ UNCHANGED innerWidth

\* The provider is mounted again after a teardown.
Mount ==
  /\ ~mounted /\ ~crashed /\ route = "home"
  /\ MountProvider
  /\ UNCHANGED detailVars

Unmount ==
  /\ mounted /\ route = "home"
  /\ UnmountProvider
  /\ UNCHANGED detailVars

\* fetchPodcasts resolves: setAllPodcasts(data); setLoading(false)
FetchSuccess(data) ==
  /\ mounted /\ fetchPending
  /\ fetchPending' = FALSE
  /\ allPodcasts' = Rendered(data, search, genre, sortKey)
  /\ loading' = FALSE
  /\ lastEvent' = "fetch" /\ prevPage' = page
  /\ UNCHANGED <<mounted, error, search, sortKey, genre, page, pageSize,
                 innerWidth, listeners, detailVars>>

\* fetchPodcasts rejects: setError(message); setLoading(false)
FetchFailure ==
  /\ mounted /\ fetchPending
  /\ fetchPending' = FALSE
  /\ error' = "failed"
  /\ loading' = FALSE
  /\ allPodcasts' = Rendered(allPodcasts, search, genre, sortKey)
  /\ lastEvent' = "fetch" /\ prevPage' = page
  /\ UNCHANGED <<mounted, search, sortKey, genre, page, pageSize,
                 innerWidth, listeners, detailVars>>

\* The query parameters change, the provider renders, the reset effect runs.
\* (A setter called with the value the state already holds renders nothing.)
SetQuery(s, key, g) ==
  /\ <<s, key, g>> # <<search, sortKey, genre>>
  /\ lastEvent' = "query" /\ prevPage' = page
  /\ search' = s
  /\ sortKey' = key
  /\ genre' = g
  /\ page' = pageResetEffect(resetDeps(search, sortKey, genre),
                             resetDeps(s, key, g), page)
  /\ allPodcasts' = Rendered(allPodcasts, s, g, key)
  /\ UNCHANGED <<mounted, loading, error, pageSize, innerWidth, listeners,
                 fetchPending, detailVars>>

setSearch(text) ==
  /\ mounted /\ route = "home"
  /\ SetQuery(text, sortKey, genre)

setGenre(id) ==
  /\ mounted /\ route = "home"
  /\ SetQuery(search, sortKey, id)

setSortKey(key) ==
  /\ mounted /\ route = "home"
  /\ SetQuery(search, key, genre)

setPage(n) ==
  /\ mounted /\ route = "home"
  /\ page' = n
  /\ lastEvent' = "page" /\ prevPage' = n
  /\ allPodcasts' = Rendered(allPodcasts, search, genre, sortKey)
  /\ UNCHANGED <<mounted, loading, error, search, sortKey, genre, pageSize,
                 innerWidth, listeners, fetchPending, detailVars>>

\* The window is resized: every registered listener runs calculatePageSize;
\* setPageSize reaches only a mounted instance.
Resize(w) ==
  /\ innerWidth' = w
  /\ lastEvent' = "resize" /\ prevPage' = page
  /\ pageSize' = IF mounted /\ listeners > 0 THEN calculatePageSize(w)
                 ELSE pageSize
  /\ allPodcasts' = IF mounted THEN Rendered(allPodcasts, search, genre, sortKey)
                    ELSE allPodcasts
  /\ UNCHANGED <<mounted, loading, error, search, sortKey, genre, page,
                 listeners, fetchPending, detailVars>>

(***************************************************************************)
(* ShowDetail and PodcastDetail.                                           *)
(***************************************************************************)
\* What the data source can deliver for a show: its seasons, each with a
\* number of episodes.
SeasonLists ==
  UNION {[1..n -> [episodes : 0..MaxEpisodes]] : n \in 0..MaxSeasons}

ShowDetails == {[seasons |-> sl] : sl \in SeasonLists}

\* ShowDetail mounts (ShowDetail.jsx:26-32): its state and its request.
MountShowDetail(gs) ==
  /\ route' = "show"
  /\ navGenres' = gs
  /\ podcast' = <<>>
  /\ detailLoading' = TRUE
  /\ detailError' = null
  /\ detailFetchPending' = TRUE
  /\ selectedSeasonIndex' = 0
  /\ UNCHANGED crashed

\* ShowDetail unmounts: its state and PodcastDetail's are gone.
UnmountShowDetail ==
  /\ route' = "home"
  /\ navGenres' = undefined
  /\ podcast' = <<>>
  /\ detailLoading' = TRUE
  /\ detailError' = null
  /\ detailFetchPending' = FALSE
  /\ selectedSeasonIndex' = 0
  /\ UNCHANGED crashed

\* !loading && !error: ShowDetail renders <PodcastDetail>
DetailRendered == route = "show" /\ ~detailLoading /\ detailError = null

\* const season = podcast.seasons[selectedSeasonIndex]
seasonAt(p, idx) ==
  IF idx + 1 \in DOMAIN p.seasons THEN Defined(p.seasons[idx + 1]) ELSE undefined

\* PodcastDetail's render throws a TypeError: season.image on an undefined
\* season (PodcastDetail:62), or genres.map on undefined genres in GenreTags.
renderThrows(p, idx, gs) == seasonAt(p, idx) = undefined \/ gs = undefined

\* A card of the rendered page is clicked (PodcastCard.jsx:24-29).
handleNavigate(i) ==
  /\ mounted /\ ~crashed /\ route = "home"
  /\ ~loading /\ error = null
  /\ i \in 1..Len(paged)
  /\ MountShowDetail(Defined(paged[i].genres))
  /\ UNCHANGED catalogVars

\* fetchSinglePodcast resolves: setPodcast(data); setLoading(false); then
\* PodcastDetail mounts with season 0.  An error thrown while rendering
\* makes React unmount the whole tree.
FetchDetailSuccess(data) ==
  /\ route = "show" /\ ~crashed /\ detailFetchPending
  /\ detailFetchPending' = FALSE
  /\ podcast' = data
  /\ detailLoading' = FALSE
  /\ selectedSeasonIndex' = 0
  /\ crashed' = renderThrows(data, 0, navGenres)
  /\ IF renderThrows(data, 0, navGenres)
       THEN UnmountProvider
       ELSE UNCHANGED catalogVars
  /\ UNCHANGED <<route, navGenres, detailError>>

\* fetchSinglePodcast rejects: setError(message); setLoading(false)
FetchDetailFailure ==
  /\ route = "show" /\ ~crashed /\ detailFetchPending
  /\ detailFetchPending' = FALSE
  /\ detailError' = "failed"
  /\ detailLoading' = FALSE
  /\ UNCHANGED <<route, navGenres, podcast, selectedSeasonIndex, crashed,
                 catalogVars>>

\* onChange of the season <select>, whose options are the seasons' indices.
selectSeason(i) ==
  /\ DetailRendered /\ ~crashed
  /\ i \in 0..(Len(podcast.seasons) - 1)
  /\ selectedSeasonIndex' = i
  /\ crashed' = renderThrows(podcast, i, navGenres)
  /\ UNCHANGED <<route, navGenres, podcast, detailLoading, detailError,
                 detailFetchPending, catalogVars>>

\* The header's link to "/" or the Back button.
GoHome ==
  /\ route = "show" /\ ~crashed
  /\ UnmountShowDetail
  /\ UNCHANGED catalogVars

Next ==
  \/ Mount
  \/ Unmount
  \/ \E data \in Datasets : FetchSuccess(data)
  \/ FetchFailure
  \/ \E text \in SearchInputs : setSearch(text)
  \/ \E id \in GenreInputs : setGenre(id)
  \/ \E key \in SortInputs : setSortKey(key)
  \/ \E n \in PageInputs : setPage(n)
  \/ \E w \in Widths : Resize(w)

Spec == Init /\ [][Next]_vars

\* The app loaded at "/" or, with no navigation state, at "/show/:id".
InitDetail ==
  /\ mounted = TRUE
  /\ allPodcasts = <<>>
  /\ loading = TRUE
  /\ error = null
  /\ search = <<>>
  /\ sortKey = "date-desc"
  /\ genre = <<"a", "l", "l">>
  /\ page = 1
  /\ innerWidth \in Widths
  /\ pageSize = calculatePageSize(innerWidth)
  /\ listeners = addResizeListener(0)
  /\ fetchPending = TRUE
  /\ lastEvent = "mount"
  /\ prevPage = 1
  /\ route \in {"home", "show"}
  /\ podcast = <<>>
  /\ detailLoading = TRUE
  /\ detailError = null
  /\ selectedSeasonIndex = 0
  /\ detailFetchPending = (route = "show")
  /\ navGenres = undefined
  /\ crashed = FALSE

\* Navigation and the show detail view, the home page's controls idle.
NextDetail ==
  \/ \E data \in Datasets : FetchSuccess(data)
  \/ FetchFailure
  \/ \E i \in 1..MaxShows : handleNavigate(i)
  \/ \E data \in ShowDetails : FetchDetailSuccess(data)
  \/ FetchDetailFailure
  \/ \E i \in 0..(MaxSeasons - 1) : selectSeason(i)
  \/ GoHome

SpecDetail == InitDetail /\ [][NextDetail]_vars

(***************************************************************************)
(* Properties.  The vocabulary below states them without the operators of  *)
(* the implementation.                                                     *)
(***************************************************************************)
SameLetter(x, y) == x = y \/ {x, y} = {"a", "A"} \/ {x, y} = {"b", "B"}

\* s occurs in title at some offset, letter case ignored
ContainsIgnoringCase(title, s) ==
  \E off \in 0..(Len(title) - Len(s)) :
    \A k \in 1..Len(s) : SameLetter(title[off + k], s[k])

IsBlank(s) == \A i \in 1..Len(s) : s[i] = " "

\* The elements of D at the indices idx, in D's order.
Pick(D, idx) ==
  [k \in 1..Cardinality(idx) |->
     D[CHOOSE i \in idx : Cardinality({j \in idx : j < i}) = k - 1]]

\* The genre identifier a filter value denotes.
GenreIdOf(g) ==
  CASE g = <<"1">> -> 1
    [] g = <<"2">> -> 2
    [] g = <<"1", "0">> -> 10

HasGenre(show, id) == \E i \in 1..Len(show.genres) : show.genres[i] = id

SearchMatches(D) ==
  IF IsBlank(search) THEN DOMAIN D
  ELSE {i \in DOMAIN D : ContainsIgnoringCase(D[i].title, search)}

GenreMatches(D) ==
  IF genre = <<"a", "l", "l">> THEN DOMAIN D
  ELSE {i \in DOMAIN D : HasGenre(D[i], GenreIdOf(genre))}

\* The shows that pass the search and the genre filter, in dataset order.
Passing == Pick(allPodcasts, SearchMatches(allPodcasts) \cap GenreMatches(allPodcasts))

\* Calendar order of two timestamps.
Earlier(u, v) ==
  \/ u.year < v.year
  \/ u.year = v.year /\ u.month < v.month
  \/ u.year = v.year /\ u.month = v.month /\ u.day < v.day

PositionOf(show) == CHOOSE k \in DOMAIN allPodcasts : allPodcasts[k].id = show.id

\* C1: the exposed currentPage is always within 1..totalPages, whatever page
\* was requested (0, negative and far too large values included).
C1_CurrentPageInRange == 1 <= currentPage /\ currentPage <= totalPages

\* C2: after an event that changed the search text, the genre or the sort
\* key the requested page is 1; after a viewport resize the requested page
\* is what it was before.
C2_QueryChangeResetsPage ==
  /\ lastEvent = "query" => page = 1
  /\ lastEvent = "resize" => page = prevPage

C2_Witness == lastEvent = "query" /\ prevPage > 1 /\ page = 1 /\ totalPages > 1

\* C3: totalPages is 1 when no show passes the filters, and otherwise the
\* least number of pages of pageSize shows that hold all passing shows;
\* pageSize is positive.
C3_TotalPages ==
  LET count == Cardinality(SearchMatches(allPodcasts) \cap GenreMatches(allPodcasts))
  IN /\ pageSize > 0
     /\ totalPages >= 1
     /\ count = 0 => totalPages = 1
     /\ count > 0 => /\ (totalPages - 1) * pageSize < count
                     /\ count <= totalPages * pageSize

C3_Witness ==
  /\ allPodcasts # <<>> /\ search # <<>>
  /\ Len(filtered) > 2 * pageSize /\ totalPages = 3

\* C4: the search step keeps exactly the shows whose title contains the
\* search text, letter case ignored, in dataset order; an empty or blank
\* search text keeps the dataset as it is.
C4_SearchStep ==
  searchStep(SpreadCopy(allPodcasts), search).items =
    IF IsBlank(search) THEN allPodcasts
    ELSE Pick(allPodcasts, SearchMatches(allPodcasts))

C4_Witness ==
  /\ search = <<"A", "B">>
  /\ Len(searchStep(SpreadCopy(allPodcasts), search).items) \in 2..(Len(allPodcasts) - 1)

\* C5: the genre step keeps everything for "all" and otherwise exactly the
\* shows whose genre list holds the identifier the filter value denotes; a
\* value no show carries gives the empty list.
C5_GenreStep ==
  LET D == searchStep(SpreadCopy(allPodcasts), search)
  IN genreStep(D, genre).items =
       IF genre = <<"a", "l", "l">> THEN D.items
       ELSE Pick(D.items, GenreMatches(D.items))

C5_Witness ==
  /\ genre = <<"1", "0">> /\ allPodcasts # <<>> /\ search = <<"a">>
  /\ genreStep(searchStep(SpreadCopy(allPodcasts), search), genre).items = <<>>

\* C6: while the provider is mounted the page size is 10 for a viewport of
\* at most 1024, and otherwise twice the number of whole 260-wide cards
\* that fit; it is positive.
C6_PageSizeOfWidth ==
  mounted =>
    /\ pageSize > 0
    /\ innerWidth <= 1024 => pageSize = 10
    /\ innerWidth > 1024 =>
         \E c \in 0..innerWidth :
           c * 260 <= innerWidth /\ innerWidth < (c + 1) * 260 /\ pageSize = 2 * c
    /\ innerWidth = 1025 => pageSize = 6
    /\ innerWidth = 1560 => pageSize = 12

C6_Witness == mounted /\ lastEvent = "resize" /\ innerWidth = 1560 /\ pageSize = 12

\* C7: under date-desc the derived list holds exactly the passing shows,
\* newest first, shows of one date in their dataset order; and the dataset
\* in the state is still a catalog as it was delivered.
C7_DateDescStable ==
  /\ allPodcasts \in Datasets
  /\ sortKey = "date-desc" =>
       /\ Len(filtered) = Len(Passing)
       /\ {filtered[i] : i \in DOMAIN filtered} = {Passing[i] : i \in DOMAIN Passing}
       /\ \A i, j \in DOMAIN filtered :
            i < j =>
              /\ ~Earlier(filtered[i].updated, filtered[j].updated)
              /\ filtered[i].updated = filtered[j].updated =>
                   PositionOf(filtered[i]) < PositionOf(filtered[j])

C7_Witness ==
  /\ sortKey = "date-desc" /\ filtered # Passing
  /\ \E i, j \in DOMAIN filtered :
       i < j /\ filtered[i].updated = filtered[j].updated
  /\ \E i, j \in DOMAIN filtered :
       i < j /\ Earlier(filtered[j].updated, filtered[i].updated)

\* C8: whenever the detail is rendered (not loading, no error) the selected
\* season index refers to a season of the show.
C8_SeasonIndexValid ==
  DetailRendered => selectedSeasonIndex \in 0..(Len(podcast.seasons) - 1)

\* C9: at most one resize listener of the provider is registered, exactly
\* one while it is mounted and none after teardown, and no step of a
\* torn-down provider changes the page size.
C9_ResizeListenerScoped ==
  /\ [](listeners <= 1 /\ (mounted <=> listeners = 1))
  /\ [][~mounted /\ ~mounted' => pageSize' = pageSize]_vars

C9_Witness == ~mounted /\ listeners = 0 /\ lastEvent = "resize"

\* The pages 1..n of the derived list, one after the other.
RECURSIVE PagesUpTo(_)
PagesUpTo(n) ==
  IF n = 0 THEN <<>>
  ELSE PagesUpTo(n - 1) \o slice(filtered, (n - 1) * pageSize, n * pageSize)

\* C10: the exposed page is the slice of the derived list from
\* (currentPage-1)*pageSize: min(pageSize, remaining) shows, at most
\* pageSize, in the list's order; the pages 1..totalPages together are the
\* derived list.
C10_PageIsSlice ==
  LET first == (currentPage - 1) * pageSize
  IN /\ Len(paged) <= pageSize
     /\ Len(paged) = Min(pageSize, Len(filtered) - first)
     /\ \A k \in 1..Len(paged) :
          first + k \in DOMAIN filtered /\ paged[k] = filtered[first + k]
     /\ PagesUpTo(totalPages) = filtered

====
